---- MODULE Spec2Model ----
(***************************************************************************)
(* Model of the session logic of src/src/App.tsx: the transport wrapper    *)
(* api and the four operations register, login, refresh and logout of the  *)
(* App component, with the component state they write (user, accessToken,  *)
(* msg).                                                                   *)
(*                                                                         *)
(* Each operation is an async function.  Its first part (setMsg("") and    *)
(* the call of fetch inside api) runs synchronously when it is invoked.    *)
(* It then waits for api; between the call of fetch (line 14) and the      *)
(* resumption of the operation after the await (lines 45, 64, 80, 94) the  *)
(* code reads and writes no component state, so the arrival of the         *)
(* response, the parsing of its body and the rest of the operation are one *)
(* step.  pending lists the waiting operations in the order of invocation.*)
(*                                                                         *)
(* The form state (mode, email, password) only decides which of the        *)
(* Register / Login buttons is shown and enabled; the operations are       *)
(* modelled as callable at any time.                                       *)
(***************************************************************************)
EXTENDS Integers, Sequences, FiniteSets, TLC

VARIABLES user, accessToken, msg, pending, invoked, sent, done, last, logouts

vars == <<user, accessToken, msg, pending, invoked, sent, done, last, logouts>>

(* ---------------- bounds ---------------- *)
MaxOps == 3
MaxPending == 2

(* ---------------- value domains ---------------- *)
Null == "null"
Undefined == "undefined"
Users == {"u1", "u2"}
Tokens == {"tok1", "tok2"}
Ops == {"register", "login", "refresh", "logout"}
Statuses == {200, 201, 204, 400, 401, 409, 500}

\* A parsed JSON value, as far as the operations look at it: its kind
\* (null, a truthy scalar such as true or "x", an object) and what reading
\* the properties user and accessToken of it gives.  The falsy scalars (0,
\* false, "") take the same branches as null.
JsonValue(kind, u, t) == [kind |-> kind, user |-> u, accessToken |-> t]
NullData == JsonValue("null", Undefined, Undefined)
JsonValues ==
    {NullData, JsonValue("truthy", Undefined, Undefined)}
    \cup {JsonValue("object", u, t) : u \in {"u1", Undefined}, t \in {"tok1", Undefined}}
    \cup {JsonValue("object", "u1", "tok2"), JsonValue("object", "u2", "tok2")}

\* A response body is given by what parsing it as JSON yields: a value, or a
\* failure (an empty body, text that is not JSON).
Unparsable == JsonValue("unparsable", Undefined, Undefined)
Bodies == JsonValues \cup {Unparsable}

\* The responses fetch can resolve with: a status, whether the content-type
\* header includes application/json, and the body.  A 204 response has no
\* body.
Responses ==
    {[status |-> s, ctJson |-> TRUE, body |-> b] : s \in Statuses \ {204}, b \in Bodies}
    \cup {[status |-> s, ctJson |-> FALSE, body |-> Unparsable] : s \in Statuses \ {204}}
    \cup {[status |-> 204, ctJson |-> c, body |-> Unparsable] : c \in BOOLEAN}

Truthy(data) == data.kind \in {"truthy", "object"}

\* No response: fetch rejected.
NoResponse == [status |-> 0, ctJson |-> FALSE, body |-> Unparsable]

\* last describes the latest step when it completed an operation (NoResult
\* after an invocation): which operation, how api ended ("returned" or
\* "rejected"), the status and data of its result, the user and accessToken
\* held just before, the response fetch resolved with, the position the
\* operation had among the waiting ones, and whether the step before
\* completed an operation that was invoked after this one (late).
Result(op, outcome, status, data, u, t, response, position, late) ==
    [op |-> op, outcome |-> outcome, status |-> status, data |-> data,
     before |-> [user |-> u, accessToken |-> t], response |-> response,
     position |-> position, late |-> late]
NoResult == Result("none", "none", 0, NullData, Null, Null, NoResponse, 0, FALSE)

(* ---------------- the request of an operation ---------------- *)
\* Lines 30-31: the form fields sent by register and login.
email == "a@test.com"
password == "Passw0rd!"

\* The operations that pass json: { email, password } to api.
SendsJson(op) == op \in {"register", "login"}

\* api that sends the stored access token as a bearer token
requestWithBearer(op) ==
    [path |-> "/auth/" \o op,
     method |-> "POST",
     headers |-> (IF SendsJson(op) THEN {"Content-Type: application/json"} ELSE {})
                 \cup (IF accessToken \in Tokens
                       THEN {"Authorization: Bearer " \o accessToken} ELSE {}),
     credentials |-> "include",
     body |-> IF SendsJson(op) THEN <<email, password>> ELSE <<>>]

\* Lines 11-19: the arguments api gives to fetch for an operation.
request(op) ==
    [path |-> "/auth/" \o op,
     method |-> "POST",
     headers |-> IF SendsJson(op) THEN {"Content-Type: application/json"} ELSE {},
     credentials |-> "include",
     body |-> IF SendsJson(op) THEN <<email, password>> ELSE <<>>]

ErrorMsg(status) == "Error: " \o ToString(status)

(* ---------------- the transport wrapper ---------------- *)
\* Lines 21-25: what api does with the response fetch resolved with.  threw
\* says that res.json() rejected, so that api rejects too.
api(response) ==
    IF response.ctJson
    THEN IF response.body = Unparsable
         THEN [threw |-> TRUE, status |-> response.status, data |-> NullData]
         ELSE [threw |-> FALSE, status |-> response.status, data |-> response.body]
    ELSE [threw |-> FALSE, status |-> response.status, data |-> NullData]

(* ---------------- the continuations of the operations ---------------- *)
Session(u, t, m) == [user |-> u, accessToken |-> t, msg |-> m]

\* register that also takes 200 for its success code
registerResultAccepts200(res, u, t) ==
    IF res.status \in {200, 201} /\ Truthy(res.data)
    THEN Session(res.data.user, res.data.accessToken, "Registered")
    ELSE IF res.status = 409 THEN Session(u, t, "Email already exists")
    ELSE IF res.status = 400 THEN Session(u, t, "Invalid payload")
    ELSE Session(u, t, ErrorMsg(res.status))

registerResult(res, u, t) ==
    IF res.status = 201 /\ Truthy(res.data)
    THEN Session(res.data.user, res.data.accessToken, "Registered")
    ELSE IF res.status = 409 THEN Session(u, t, "Email already exists")
    ELSE IF res.status = 400 THEN Session(u, t, "Invalid payload")
    ELSE Session(u, t, ErrorMsg(res.status))

\* login without the branch for 400
loginResultWithout400(res, u, t) ==
    IF res.status = 200 /\ Truthy(res.data)
    THEN Session(res.data.user, res.data.accessToken, "Logged in")
    ELSE IF res.status = 401 THEN Session(u, t, "Invalid credentials")
    ELSE Session(u, t, ErrorMsg(res.status))

loginResult(res, u, t) ==
    IF res.status = 200 /\ Truthy(res.data)
    THEN Session(res.data.user, res.data.accessToken, "Logged in")
    ELSE IF res.status = 401 THEN Session(u, t, "Invalid credentials")
    ELSE IF res.status = 400 THEN Session(u, t, "Invalid payload")
    ELSE Session(u, t, ErrorMsg(res.status))

\* refresh that keeps the access token it holds when the user is the same
refreshResultDiffed(res, u, t) ==
    IF res.status = 200 /\ Truthy(res.data)
    THEN IF res.data.user = u
         THEN Session(u, t, "Refreshed")
         ELSE Session(res.data.user, res.data.accessToken, "Refreshed")
    ELSE IF res.status = 401 THEN Session(u, t, "No/invalid refresh cookie")
    ELSE Session(u, t, ErrorMsg(res.status))

\* refresh with the 400 branch of login
refreshResultWith400(res, u, t) ==
    IF res.status = 200 /\ Truthy(res.data)
    THEN Session(res.data.user, res.data.accessToken, "Refreshed")
    ELSE IF res.status = 401 THEN Session(u, t, "No/invalid refresh cookie")
    ELSE IF res.status = 400 THEN Session(u, t, "Invalid payload")
    ELSE Session(u, t, ErrorMsg(res.status))

refreshResult(res, u, t) ==
    IF res.status = 200 /\ Truthy(res.data)
    THEN Session(res.data.user, res.data.accessToken, "Refreshed")
    ELSE IF res.status = 401 THEN Session(u, t, "No/invalid refresh cookie")
    ELSE Session(u, t, ErrorMsg(res.status))

\* logout that clears the session whatever the status
logoutResultAlwaysClears(res, u, t) ==
    IF res.status = 204
    THEN Session(Null, Null, "Logged out")
    ELSE Session(Null, Null, ErrorMsg(res.status))

\* logout that forgets setAccessToken(null)
logoutResultKeepsToken(res, u, t) ==
    IF res.status = 204
    THEN Session(Null, t, "Logged out")
    ELSE Session(u, t, ErrorMsg(res.status))

\* logout that shows nothing when the status is not 204
logoutResultSilent(res, u, t) ==
    IF res.status = 204
    THEN Session(Null, Null, "Logged out")
    ELSE Session(u, t, "")

\* logout that reports "Logged out" without clearing
logoutResultKeepsSession(res, u, t) ==
    IF res.status = 204
    THEN Session(u, t, "Logged out")
    ELSE Session(u, t, ErrorMsg(res.status))

logoutResult(res, u, t) ==
    IF res.status = 204
    THEN Session(Null, Null, "Logged out")
    ELSE Session(u, t, ErrorMsg(res.status))

opResult(op, res, u, t) ==
    CASE op = "register" -> registerResult(res, u, t)
      [] op = "login"    -> loginResult(res, u, t)
      [] op = "refresh"  -> refreshResult(res, u, t)
      [] op = "logout"   -> logoutResult(res, u, t)

(* ---------------- state ---------------- *)
Init ==
    /\ user = Null
    /\ accessToken = Null
    /\ msg = ""
    /\ pending = <<>>
    /\ invoked = 0
    /\ sent = 0
    /\ done = 0
    /\ last = NoResult
    /\ logouts = 0

\* The number of operations waiting for api.
Outstanding == Len(pending)

\* pending without its i-th element.
Without(i) ==
    [j \in 1..(Len(pending) - 1) |-> IF j < i THEN pending[j] ELSE pending[j + 1]]

(* ---------------- invocation: setMsg("") and the call of fetch -------- *)
\* invocation behind an in-flight guard: refused while a call is waiting
invokeSingleFlight(op) ==
    /\ Outstanding = 0
    /\ invoked < MaxOps
    /\ msg' = ""
    /\ pending' = Append(pending, [op |-> op, request |-> request(op)])
    /\ invoked' = invoked + 1
    /\ sent' = sent + 1
    /\ last' = NoResult
    /\ UNCHANGED <<user, accessToken, done, logouts>>

\* invocation that clears the session before the result is known
invokeClearsSession(op) ==
    /\ invoked < MaxOps
    /\ Outstanding < MaxPending
    /\ msg' = ""
    /\ user' = Null
    /\ accessToken' = Null
    /\ pending' = Append(pending, [op |-> op, request |-> request(op)])
    /\ invoked' = invoked + 1
    /\ sent' = sent + 1
    /\ last' = NoResult
    /\ UNCHANGED <<done, logouts>>

\* invocation without setMsg("")
invokeKeepsMsg(op) ==
    /\ invoked < MaxOps
    /\ Outstanding < MaxPending
    /\ pending' = Append(pending, [op |-> op, request |-> request(op)])
    /\ invoked' = invoked + 1
    /\ sent' = sent + 1
    /\ last' = NoResult
    /\ UNCHANGED <<user, accessToken, msg, done, logouts>>

invoke(op) ==
    /\ invoked < MaxOps
    /\ Outstanding < MaxPending
    /\ msg' = ""
    /\ pending' = Append(pending, [op |-> op, request |-> request(op)])
    /\ invoked' = invoked + 1
    /\ sent' = sent + 1
    /\ last' = NoResult
    /\ UNCHANGED <<user, accessToken, done, logouts>>

register == invoke("register")

login == invoke("login")

refresh == invoke("refresh")

logout == invoke("logout")

(* ---------------- completion ---------------- *)
\* logouts follows runs of logout calls: 1 when the latest completion is a
\* logout answered 204 that found a user and an access token, 2 when it is a
\* logout answered otherwise that directly follows such a one, 0 otherwise.
LogoutRun(op, status) ==
    IF op = "logout" /\ status = 204 /\ user \in Users /\ accessToken \in Tokens THEN 1
    ELSE IF op = "logout" /\ status # 204 /\ logouts = 1 THEN 2
    ELSE 0

\* resume that drops the result of an operation when one invoked after it
\* has just completed (the latest invocation wins)
resumeLatestInvocationWins(i, res, response) ==
    LET op == pending[i].op
        r == opResult(op, res, user, accessToken)
        stale == last.position > i IN
    /\ user' = IF stale THEN user ELSE r.user
    /\ accessToken' = IF stale THEN accessToken ELSE r.accessToken
    /\ msg' = r.msg
    /\ pending' = Without(i)
    /\ done' = done + 1
    /\ last' = Result(op, "returned", res.status, res.data, user, accessToken,
                      response, i, last.position > i)
    /\ logouts' = LogoutRun(op, res.status)
    /\ UNCHANGED <<invoked, sent>>

\* resume that sends a refresh request by itself when login or logout is
\* answered 401
resumeAutoRefresh(i, res, response) ==
    LET op == pending[i].op
        r == opResult(op, res, user, accessToken)
        auto == res.status = 401 /\ op \in {"login", "logout"} IN
    /\ user' = r.user
    /\ accessToken' = r.accessToken
    /\ msg' = r.msg
    /\ pending' = IF auto
                  THEN Append(Without(i), [op |-> "refresh", request |-> request("refresh")])
                  ELSE Without(i)
    /\ sent' = IF auto THEN sent + 1 ELSE sent
    /\ done' = done + 1
    /\ last' = Result(op, "returned", res.status, res.data, user, accessToken,
                      response, i, last.position > i)
    /\ logouts' = LogoutRun(op, res.status)
    /\ UNCHANGED invoked

\* api returned res to the i-th waiting operation: the rest of it runs.
resume(i, res, response) ==
    LET op == pending[i].op
        r == opResult(op, res, user, accessToken) IN
    /\ user' = r.user
    /\ accessToken' = r.accessToken
    /\ msg' = r.msg
    /\ pending' = Without(i)
    /\ done' = done + 1
    /\ last' = Result(op, "returned", res.status, res.data, user, accessToken,
                      response, i, last.position > i)
    /\ logouts' = LogoutRun(op, res.status)
    /\ UNCHANGED <<invoked, sent>>

\* a failure handler that logs the user out
rejectClearsSession(i, response) ==
    /\ user' = Null
    /\ accessToken' = Null
    /\ pending' = Without(i)
    /\ done' = done + 1
    /\ last' = Result(pending[i].op, "rejected", response.status, NullData, user, accessToken,
                      response, i, last.position > i)
    /\ logouts' = 0
    /\ UNCHANGED <<msg, invoked, sent>>

\* api threw in the i-th waiting operation: its promise is rejected and
\* nothing after the await runs.
reject(i, response) ==
    /\ pending' = Without(i)
    /\ done' = done + 1
    /\ last' = Result(pending[i].op, "rejected", response.status, NullData, user, accessToken,
                      response, i, last.position > i)
    /\ logouts' = 0
    /\ UNCHANGED <<user, accessToken, msg, invoked, sent>>

\* fetch rejects: the request could not complete.
fetchReject ==
    \E i \in 1..Len(pending) : reject(i, NoResponse)

\* fetch resolves with one of the given responses and api returns
\* {status, data}.
apiReturnOf(responses) ==
    \E i \in 1..Len(pending), response \in responses :
        /\ ~api(response).threw
        /\ resume(i, [status |-> api(response).status, data |-> api(response).data], response)

\* fetch resolves and api returns {status, data}.
apiReturn == apiReturnOf(Responses)

\* fetch resolves and res.json() rejects.
apiThrow ==
    \E i \in 1..Len(pending), response \in Responses :
        /\ api(response).threw
        /\ reject(i, response)

Next ==
    \/ register
    \/ login
    \/ refresh
    \/ logout
    \/ fetchReject
    \/ apiReturn
    \/ apiThrow

Spec == Init /\ [][Next]_vars

\* The runs in which every request is answered, with a response api can
\* return: no fetch rejects, no body fails to parse, and no response stays
\* out for ever.
\* The answers are every status with no JSON body or with the body of a
\* success.
Answers ==
    {r \in Responses : ~r.ctJson \/ r.body = JsonValue("object", "u1", "tok1")}

apiAnswer == apiReturnOf(Answers)

NextAnswered ==
    \/ register
    \/ login
    \/ refresh
    \/ logout
    \/ apiAnswer

SpecAnswered == Init /\ [][NextAnswered]_vars /\ WF_vars(apiAnswer)

TypeOK ==
    /\ user \in Users \cup {Null, Undefined}
    /\ accessToken \in Tokens \cup {Null, Undefined}
    /\ Len(pending) \in 0..MaxPending
    /\ \A i \in 1..Len(pending) : pending[i].op \in Ops
    /\ invoked \in 0..MaxOps
    /\ sent = invoked
    /\ done = invoked - Outstanding
    /\ logouts \in 0..2

(* ======================= the claims ======================= *)
Anonymous == user = Null /\ accessToken = Null
Authenticated == user \in Users /\ accessToken \in Tokens

SuccessCode(op) ==
    CASE op = "register" -> 201
      [] op = "login"    -> 200
      [] op = "refresh"  -> 200
      [] op = "logout"   -> 204
      [] OTHER           -> 0

SuccessMsgs == {"Registered", "Logged in", "Refreshed"}

\* The body has a user and an access token.
WellFormed(data) == data.kind = "object" /\ data.user \in Users /\ data.accessToken \in Tokens

\* The step completes an operation (its api call returned or threw).
Completes == done' = done + 1
\* The step is the rest of operation op after api returned.
Returns(op) == Completes /\ last'.op = op /\ last'.outcome = "returned"
SessionUnchanged == user' = user /\ accessToken' = accessToken

\* C1: in every reachable state the session is exactly Anonymous (no user, no
\* access token) or exactly Authenticated (a user and an access token).
C1_AnonymousOrAuthenticated == Anonymous \/ Authenticated

\* C2: an operation whose response carries a status other than its success
\* code leaves user and accessToken as they were.
C2_FailureKeepsSession ==
    [][(Completes /\ last'.status # SuccessCode(last'.op)) => SessionUnchanged]_vars
C2_Witness ==
    /\ last.op = "logout" /\ last.outcome = "returned" /\ last.status = 401
    /\ last.before.user = "u1" /\ last.before.accessToken = "tok1"
    /\ user = "u1" /\ accessToken = "tok1"

\* C3: every operation completes normally, with a non-empty status message,
\* also when the transport call fails: no fault reaches the caller.
C3_NoFaultReachesCaller ==
    [][Completes => (last'.outcome = "returned" /\ msg' # "")]_vars

\* C4: for register, login and refresh, a response with the success status
\* whose body is missing or malformed does not change the session and does
\* not set the success message.
C4_MalformedBodyIsNoSuccess ==
    [][(/\ Completes
        /\ last'.op \in {"register", "login", "refresh"}
        /\ last'.status = SuccessCode(last'.op)
        /\ ~WellFormed(last'.data))
       => (SessionUnchanged /\ msg' \notin SuccessMsgs)]_vars

C6_SecondLogoutKeepsAnonymous ==
    [][(logouts = 1 /\ Returns("logout") /\ last'.status # 204)
       => (user' = Null /\ accessToken' = Null /\ msg' = ErrorMsg(last'.status))]_vars
C6_Witness ==
    /\ logouts = 2
    /\ last.op = "logout" /\ last.status = 401
    /\ Anonymous /\ msg = "Error: 401"

\* C7: a refresh answered 200 with a body that has a user and an access
\* token stores exactly that user and that access token, whatever was held
\* before, also when the user is the one already held.
C7_RefreshReplaces ==
    [][(Returns("refresh") /\ last'.status = 200 /\ WellFormed(last'.data))
       => (user' = last'.data.user /\ accessToken' = last'.data.accessToken)]_vars
C7_Witness ==
    /\ last.op = "refresh" /\ last.outcome = "returned" /\ last.status = 200
    /\ last.before.user = "u1" /\ last.before.accessToken = "tok1"
    /\ last.data.user = "u1" /\ last.data.accessToken = "tok2"
    /\ user = "u1" /\ accessToken = "tok2"

\* C8: login: 200 with user and access token in the body gives
\* Authenticated(user, accessToken) and "Logged in"; 401 gives "Invalid
\* credentials", 400 "Invalid payload", any other status "Error: <code>",
\* and these leave the session unchanged.
C8_LoginClassifies ==
    [][Returns("login") =>
        /\ (last'.status = 200 /\ WellFormed(last'.data))
              => (/\ user' = last'.data.user
                  /\ accessToken' = last'.data.accessToken
                  /\ msg' = "Logged in")
        /\ last'.status = 401 => (msg' = "Invalid credentials" /\ SessionUnchanged)
        /\ last'.status = 400 => (msg' = "Invalid payload" /\ SessionUnchanged)
        /\ last'.status \notin {200, 401, 400}
              => (msg' = ErrorMsg(last'.status) /\ SessionUnchanged)]_vars
C8_Witness ==
    /\ last.op = "login" /\ last.outcome = "returned" /\ last.status = 200
    /\ last.before.user = Null /\ last.before.accessToken = Null
    /\ last.data.user = "u1" /\ last.data.accessToken = "tok1"
    /\ user = "u1" /\ accessToken = "tok1" /\ msg = "Logged in"

\* C9: register: 201 with user and access token in the body gives
\* Authenticated(user, accessToken) and "Registered"; 409 gives "Email
\* already exists", 400 "Invalid payload", any other status (200 too)
\* "Error: <code>", and these leave the session unchanged.
C9_RegisterClassifies ==
    [][Returns("register") =>
        /\ (last'.status = 201 /\ WellFormed(last'.data))
              => (/\ user' = last'.data.user
                  /\ accessToken' = last'.data.accessToken
                  /\ msg' = "Registered")
        /\ last'.status = 409 => (msg' = "Email already exists" /\ SessionUnchanged)
        /\ last'.status = 400 => (msg' = "Invalid payload" /\ SessionUnchanged)
        /\ last'.status \notin {201, 409, 400}
              => (msg' = ErrorMsg(last'.status) /\ SessionUnchanged)]_vars
C9_Witness ==
    /\ last.op = "register" /\ last.outcome = "returned" /\ last.status = 200
    /\ WellFormed(last.data)
    /\ last.before.user = Null /\ last.before.accessToken = Null
    /\ Anonymous /\ msg = "Error: 200"

\* C10: refresh: 200 with user and access token in the body gives
\* Authenticated(user, accessToken) and "Refreshed"; 401 gives "No/invalid
\* refresh cookie", any other status (400 too) "Error: <code>", and these
\* leave the session unchanged.
C10_RefreshClassifies ==
    [][Returns("refresh") =>
        /\ (last'.status = 200 /\ WellFormed(last'.data))
              => (/\ user' = last'.data.user
                  /\ accessToken' = last'.data.accessToken
                  /\ msg' = "Refreshed")
        /\ last'.status = 401 => (msg' = "No/invalid refresh cookie" /\ SessionUnchanged)
        /\ last'.status \notin {200, 401}
              => (msg' = ErrorMsg(last'.status) /\ SessionUnchanged)]_vars
C10_Witness ==
    /\ last.op = "refresh" /\ last.outcome = "returned" /\ last.status = 400
    /\ last.before.user = "u1" /\ last.before.accessToken = "tok1"
    /\ user = "u1" /\ accessToken = "tok1" /\ msg = "Error: 400"

\* C11: for a response with a 4xx or 5xx status, whatever its content type
\* and body, api throws nothing and returns that status with the parsed body
\* as data when the content type is JSON and null otherwise.
C11_ApiReturnsForErrorStatus ==
    last.response.status >= 400
        => /\ last.outcome = "returned"
           /\ last.status = last.response.status
           /\ last.data = IF last.response.ctJson THEN last.response.body ELSE NullData

\* C12: when an operation completes right after another one that was
\* outstanding with it, the session is the one its own response gives (the
\* user and access token of a success body, null after a logout answered 204,
\* unchanged after a failure), whichever of the two was invoked first.
C12_LastResolvedDecides ==
    [][(Completes /\ last.outcome # "none" /\ last'.outcome = "returned") =>
        /\ (last'.op = "logout" /\ last'.status = 204)
              => (user' = Null /\ accessToken' = Null)
        /\ (last'.op # "logout" /\ last'.status = SuccessCode(last'.op)
                                /\ WellFormed(last'.data))
              => (user' = last'.data.user /\ accessToken' = last'.data.accessToken)
        /\ last'.status # SuccessCode(last'.op) => SessionUnchanged]_vars
\* login was invoked before another operation, its response came after that
\* operation's, and the session is the one of login's response.
C12_Witness ==
    /\ last.late
    /\ last.op = "login" /\ last.outcome = "returned" /\ last.status = 200
    /\ last.data.user = "u1" /\ last.data.accessToken = "tok1"
    /\ last.before.user = Null /\ last.before.accessToken = Null
    /\ user = "u1" /\ accessToken = "tok1"
    /\ done >= 2

\* C13: as many requests have been sent as operations have been invoked, and
\* the requests in flight are those of the invoked operations that have not
\* completed.
C13_OneRequestPerInvocation ==
    /\ sent = invoked
    /\ Len(pending) = invoked - done
C13_Witness ==
    /\ invoked >= 2 /\ sent = invoked
    /\ done >= 1 /\ last.outcome = "returned" /\ last.status = 401
    /\ Len(pending) = invoked - done

\* C14: every request in flight is the fixed request of its operation: no
\* header but the JSON content type of register and login, no body but their
\* email and password, whatever user and access token are stored.
C14_RequestOf(op) ==
    CASE op = "register" ->
           [path |-> "/auth/register", method |-> "POST",
            headers |-> {"Content-Type: application/json"}, credentials |-> "include",
            body |-> <<"a@test.com", "Passw0rd!">>]
      [] op = "login" ->
           [path |-> "/auth/login", method |-> "POST",
            headers |-> {"Content-Type: application/json"}, credentials |-> "include",
            body |-> <<"a@test.com", "Passw0rd!">>]
      [] op = "refresh" ->
           [path |-> "/auth/refresh", method |-> "POST",
            headers |-> {}, credentials |-> "include", body |-> <<>>]
      [] op = "logout" ->
           [path |-> "/auth/logout", method |-> "POST",
            headers |-> {}, credentials |-> "include", body |-> <<>>]
C14_TokenNeverSent ==
    \A i \in 1..Len(pending) : pending[i].request = C14_RequestOf(pending[i].op)
\* a refresh was invoked while an access token is stored
C14_Witness ==
    /\ user = "u1" /\ accessToken = "tok1"
    /\ last = NoResult
    /\ Len(pending) = 1
    /\ pending[1].op = "refresh"
    /\ pending[1].request.headers = {}
    /\ pending[1].request.body = <<>>

\* C15: nothing guards against a call in flight: as long as the bounds of
\* the model leave room, every operation can be invoked, also while others
\* wait for their responses.
C15_NoInFlightGuard ==
    (invoked < MaxOps /\ Outstanding < MaxPending)
        => (ENABLED register /\ ENABLED login /\ ENABLED refresh /\ ENABLED logout)
\* two operations are outstanding at once
C15_Witness ==
    /\ Len(pending) = 2
    /\ pending[1].op = "login" /\ pending[2].op = "logout"
    /\ done = 0

\* C16: user and accessToken change only in a step that completes an
\* operation and sets one of the messages "Registered", "Logged in",
\* "Refreshed", "Logged out"; invoking and waiting never change them.
C16_SessionChangesOnlyOnSuccess ==
    [][(user' # user \/ accessToken' # accessToken)
       => (/\ Completes
           /\ last'.outcome = "returned"
           /\ msg' \in {"Registered", "Logged in", "Refreshed", "Logged out"})]_vars
\* a logout is waiting and the session it will clear is still there
C16_Witness ==
    /\ user = "u1" /\ accessToken = "tok1"
    /\ last = NoResult /\ msg = ""
    /\ Len(pending) = 1 /\ pending[1].op = "logout"

\* C17: when every request is answered with a response api can return, every
\* invoked operation completes, and completes by setting a non-empty
\* message; the message is set and the session changed by such a completion
\* only, never by waiting.
C17_AnsweredOperationsComplete ==
    /\ (Outstanding > 0) ~> (Outstanding = 0)
    /\ [][Completes => msg' # ""]_vars
    /\ [][((msg' # "" /\ msg' # msg) \/ ~SessionUnchanged) => Completes]_vars
C17_Witness ==
    /\ invoked = done /\ done >= 2
    /\ last.op = "logout" /\ last.outcome = "returned" /\ last.status = 500
    /\ msg = "Error: 500"

\* C18: invoking an operation sets the message to "", and the message stays
\* "" until a step completes an operation.
C18_MessageEmptyWhilePending ==
    [][/\ invoked' = invoked + 1 => msg' = ""
       /\ (msg = "" /\ ~Completes) => msg' = ""]_vars
\* a logout has shown "Logged out" and one operation, invoked after it, is
\* waiting alone
C18_Witness ==
    /\ logouts = 1
    /\ last = NoResult
    /\ Len(pending) = 1
    /\ msg = ""

\* C19: when api throws (fetch rejects, or the body declared as JSON does not
\* parse), the operation updates no state: user, accessToken and msg stay as
\* they were.
C19_FailureUpdatesNothing ==
    [][(Completes /\ last'.outcome = "rejected")
       => (user' = user /\ accessToken' = accessToken /\ msg' = msg)]_vars
C19_Witness ==
    /\ last.op = "logout" /\ last.outcome = "rejected" /\ last.response = NoResponse
    /\ last.before.user = "u1" /\ last.before.accessToken = "tok1"
    /\ user = "u1" /\ accessToken = "tok1"
====
